---- MODULE Spec2Model ----
(***************************************************************************)
(* Model of the Facebook UI screenshot scraper.                            *)
(*                                                                         *)
(*   - FacebookUIScraper.scrape_posts: the navigate / login gate, the      *)
(*     scroll -> find -> capture loop and the JSON export (Spec)           *)
(*   - FacebookUIScraper._is_actual_post and the per-container helpers,    *)
(*     as operators over a snapshot of a container (SpecClassify)          *)
(*                                                                         *)
(* Python strings whose content the code inspects are sequences of         *)
(* one-character strings, so that "x in s", strip() and formatting are     *)
(* computed.  Optional values are sequences of length 0 (None) or 1.       *)
(* CSS selectors are opaque keys handed to the browser: TLA+ strings.      *)
(***************************************************************************)
EXTENDS Integers, Sequences, FiniteSets, TLC

VARIABLES
    pc,                \* position inside scrape_posts
    driver,            \* self.driver is set
    is_authenticated,  \* self.is_authenticated
    validate_posts,    \* self.validate_posts
    max_posts,         \* argument max_posts
    posts,             \* local accumulator `posts`
    scroll_attempts,   \* local `scroll_attempts`
    post_containers,   \* local `post_containers` of the current cycle
    idx,               \* 1-based position of the for loop in post_containers
    result,            \* the list returned to the caller (meaningful at pc = "done")
    raised,            \* an exception left scrape_posts
    ev,                \* the last statement group executed
    detailed_json_path,\* path returned by the JSON export, <<>> when none
    cin,               \* the input of the function under test (SpecClassify, SpecContainer, SpecStore)
    cout,              \* <<>> before the call, <<result>> after
    db,                \* the rows of table posts, in insertion order
    page,              \* the page the browser shows
    calls,             \* the calls made on the scraper and its driver, in order
    SELENIUM_CHROME_INDICATORS,  \* class attribute of ChromeProcessManager
    procs,             \* the process table: pid -> name, cmdline, running
    signals            \* the signals sent to processes, in order

vars == <<pc, driver, is_authenticated, validate_posts, max_posts, posts,
          scroll_attempts, post_containers, idx, result, raised, ev,
          detailed_json_path, cin, cout, db, page, calls,
          SELENIUM_CHROME_INDICATORS, procs, signals>>

loopVars == <<pc, driver, is_authenticated, validate_posts, max_posts, posts,
              scroll_attempts, post_containers, idx, result, raised, ev,
              detailed_json_path>>

\* what scrape_posts and the database never touch
otherVars == <<calls, SELENIUM_CHROME_INDICATORS, procs, signals>>

(***************************************************************************)
(* Bounds of the model and program constants                               *)
(***************************************************************************)
\* number of container elements the feed can hold
NumElems == 2
\* largest max_posts argument explored
MaxPosts == 3
\* max_scroll_attempts = 10
max_scroll_attempts == 10
\* largest number of rows of table posts explored
MaxRows == 3
\* longest list handed to save_posts
MaxBatch == 2

Elems == 1..NumElems

(***************************************************************************)
(* Strings                                                                 *)
(***************************************************************************)
s_article == <<"a", "r", "t", "i", "c", "l", "e">>
s_post == <<"p", "o", "s", "t">>
s_feed == <<"f", "e", "e", "d">>
s_userContentWrapper == <<"u", "s", "e", "r", "C", "o", "n", "t", "e", "n", "t", "W", "r", "a", "p", "p", "e", "r">>
s_du4w35lb == <<"d", "u", "4", "w", "3", "5", "l", "b">>
s_k4urcfbm == <<"k", "4", "u", "r", "c", "f", "b", "m">>
s_l9j0dhe7 == <<"l", "9", "j", "0", "d", "h", "e", "7">>
s_sjgh65i0 == <<"s", "j", "g", "h", "6", "5", "i", "0">>
s_xd9ej83 == <<"x", "d", "9", "e", "j", "8", "3">>
s_x162z183 == <<"x", "1", "6", "2", "z", "1", "8", "3">>
s_xsag5q8 == <<"x", "s", "a", "g", "5", "q", "8">>
s_xf7dkkf == <<"x", "f", "7", "d", "k", "k", "f">>
s_post_container == <<"p", "o", "s", "t", "_", "c", "o", "n", "t", "a", "i", "n", "e", "r">>
s_comment == <<"c", "o", "m", "m", "e", "n", "t">>
s_plain_class == <<"x", "1", "y", "z", "t", "b", "d", "b", " ", "x", "1", "n", "2", "o", "n", "r", "6">>
s_modern_class == <<"x", "1", "y", "z", "t", "b", "d", "b", " ", "x", "d", "9", "e", "j", "8", "3">>
s_hello == <<" ", "H", "e", "l", "l", "o", " ", "w", "o", "r", "l", "d", " ">>
s_hello_more == <<"H", "e", "l", "l", "o", " ", "w", "o", "r", "l", "d", ",", " ", "m", "o", "r", "e">>
s_blank == <<" ", " ">>
s_post_prefix == <<"p", "o", "s", "t", "_">>
s_json == <<"j", "s", "o", "n">>
s_no_role == <<"n", "o", "-", "r", "o", "l", "e">>
s_no_testid == <<"n", "o", "-", "t", "e", "s", "t", "i", "d">>
s_no_class == <<"n", "o", "-", "c", "l", "a", "s", "s">>

None == <<>>
Some(v) == <<v>>

\* Python's `needle in hay` on strings
Contains(hay, needle) ==
    \E i \in 0..(Len(hay) - Len(needle)) :
        SubSeq(hay, i + 1, i + Len(needle)) = needle

\* Python's `value or default` on an optional string
OrDefault(opt, default) ==
    IF opt = None \/ opt[1] = <<>> THEN default ELSE opt[1]

\* str.strip() for the blank character
RECURSIVE LStrip(_)
LStrip(s) == IF s # <<>> /\ Head(s) = " " THEN LStrip(Tail(s)) ELSE s

RECURSIVE RStrip(_)
RStrip(s) ==
    IF s # <<>> /\ s[Len(s)] = " " THEN RStrip(SubSeq(s, 1, Len(s) - 1)) ELSE s

Strip(s) == RStrip(LStrip(s))

DigitChars == <<"0", "1", "2", "3", "4", "5", "6", "7", "8", "9">>

RECURSIVE Digits(_)
Digits(n) ==
    IF n < 10 THEN <<DigitChars[n + 1]>>
    ELSE Digits(n \div 10) \o <<DigitChars[(n % 10) + 1]>>

\* the format specification :03d
RECURSIVE ZeroPad(_, _)
ZeroPad(s, width) == IF Len(s) < width THEN ZeroPad(<<"0">> \o s, width) ELSE s

\* a counter that wraps around after one digit
Format03d_Wrapping(n) == ZeroPad(Digits(n % 2), 3)

Format03d(n) == ZeroPad(Digits(n), 3)

(***************************************************************************)
(* ChromeProcessManager.SELENIUM_CHROME_INDICATORS as the class defines it. *)
(* Command lines and process names are TLA+ strings.                       *)
(***************************************************************************)
DefaultIndicators ==
    << "--remote-debugging-port",
       "--user-data-dir",
       "--profile-directory",
       "--no-first-run",
       "--disable-background-timer-throttling",
       "--disable-backgrounding-occluded-windows",
       "--disable-renderer-backgrounding",
       "--disable-features=TranslateUI",
       "--disable-ipc-flooding-protection",
       "--disable-extensions",
       "--disable-plugins",
       "--disable-sync",
       "--disable-translate",
       "--disable-web-security",
       "--allow-running-insecure-content",
       "--disable-features=VizDisplayCompositor" >>

\* no scraper call logged, the indicator list as the class defines it, no
\* process of interest, no signal sent
NoOtherActivity ==
    /\ calls = <<>>
    /\ SELENIUM_CHROME_INDICATORS = DefaultIndicators
    /\ procs = <<>>
    /\ signals = <<>>

(***************************************************************************)
(* Selector tables of facebook_scraper.py                                  *)
(***************************************************************************)
s_scontent == <<"s", "c", "o", "n", "t", "e", "n", "t">>
s_photo == <<"p", "h", "o", "t", "o">>
s_story_fbid == <<"s", "t", "o", "r", "y", "_", "f", "b", "i", "d">>
s_img_src == <<"s", "c", "o", "n", "t", "e", "n", "t", "/", "a">>
s_png == <<".", "p", "n", "g">>

modern_post_classes ==
    << s_userContentWrapper, s_du4w35lb, s_k4urcfbm, s_l9j0dhe7, s_sjgh65i0,
       s_xd9ej83, s_x162z183, s_xsag5q8, s_xf7dkkf >>

post_message_selectors ==
    << "[data-testid='post_message']", "[data-testid='message']",
       "div[data-testid='post_message']", "div[data-testid='message']" >>

author_selectors ==
    << "h3 a", "a[class*='x1i10hfl']", "[data-testid='post_author']",
       "[data-testid='author']", "[data-testid='user_name']",
       "a[href*='/profile.php']", "a[href*='/']" >>

non_post_indicators ==
    << "[data-testid='comment']", "[data-testid='reply']",
       "[data-testid='comment_reply']", "div[aria-label*='comment']",
       "div[aria-label*='reply']", "[data-testid='UFI2Comment']",
       "[data-testid='UFI2Reply']" >>

engagement_selectors ==
    << "[data-testid='UFI2ReactionsCount']", "[data-testid='UFI2CommentsCount']",
       "[data-testid='UFI2SharesCount']", "[aria-label*='reaction']",
       "[aria-label*='comment']", "[aria-label*='share']" >>

wait_selectors ==
    << "[data-testid='post_message']", "[data-testid='message']", "h3 a",
       "a[class*='x1i10hfl']", "[data-testid='post_author']",
       "[data-testid='author']" >>

expand_button_selectors ==
    << "div.x1i10hfl.xjbqb8w.x1ejq31n.x18oe1m7.x1sy0etr.xstzfhl.x972fbf.x10w94by.x1qhh985.x14e42zd.x9f619.x1ypdohk.xt0psk2.x3ct3a4.xdj266r.x14z9mp.xat24cr.x1lziwak.xexx8yu.xyri2b.x18d9i69.x1c1uobl.x16tdsg8.x1hl2dhg.xggy1nq.x1a2a7pz.xkrqix3.x1sur9pj.xzsf02u.x1s688f[role='button']" >>

post_text_selectors ==
    << "div.xdj266r.x14z9mp.xat24cr.x1lziwak.x1vvkbs.x126k92a",
       "div[data-testid='post_message']", "div[data-testid='message']" >>

image_container_selectors ==
    << "div.x1i10hfl.xjbqb8w.x1ejq31n.x13faqbe.x1vvkbs.x126k92a.x193iq5w",
       "div.x17z8epw.x579bpy.x1s688f.x2b8uid", "img[src*='scontent']",
       "img[data-visualcompletion='media-vc-image']" >>

image_link_selectors ==
    << "a[class*='x1i10hfl'][class*='x1qjc9v5'][role='link']",
       "a[href*='photo']", "a[href*='story_fbid']" >>

Range(seq) == {seq[i] : i \in 1..Len(seq)}

AllSelectors ==
    Range(post_message_selectors) \cup Range(author_selectors)
    \cup Range(non_post_indicators) \cup Range(engagement_selectors)
    \cup Range(wait_selectors) \cup Range(expand_button_selectors)
    \cup Range(post_text_selectors) \cup Range(image_container_selectors)
    \cup Range(image_link_selectors)

(***************************************************************************)
(* A container as the browser shows it at one moment.                      *)
(*   role, data_testid, class_attr : get_attribute results (optional)      *)
(*   q          : find_elements result per selector, a list of elements    *)
(*   q_expanded : the same once a "See more" button has been clicked       *)
(*   stale      : every call on the element raises                         *)
(* An element: is_displayed(), is_enabled(), .text, src and href.          *)
(***************************************************************************)
El(displayed, text) ==
    [displayed |-> displayed, enabled |-> TRUE, text |-> text,
     src |-> None, href |-> None]

EmptyQ == [s \in AllSelectors |-> <<>>]

Truthy(opt) == opt # None /\ opt[1] # <<>>

\* container.find_elements(By.CSS_SELECTOR, selector)
find_elements(c, selector) == c.q[selector]

\* a gate that only counts the elements that are displayed
AnyMatch_DisplayedOnly(c, selectors) ==
    \E i \in 1..Len(selectors) :
        \E j \in 1..Len(find_elements(c, selectors[i])) :
            find_elements(c, selectors[i])[j].displayed

AnyMatch(c, selectors) ==
    \E i \in 1..Len(selectors) : find_elements(c, selectors[i]) # <<>>

AnyDisplayed(elems) == \E j \in 1..Len(elems) : elems[j].displayed

(***************************************************************************)
(* _is_actual_post                                                         *)
(***************************************************************************)
\* a primary gate that lets a container without data-testid through
PrimaryGateFails_TestidOptional(role, data_testid) ==
    role # Some(s_article)
    /\ Truthy(data_testid) /\ ~Contains(data_testid[1], s_post)

\* 1. Primary check: role="article" or data-testid containing "post"
PrimaryGateFails(role, data_testid) ==
    role # Some(s_article)
    /\ (~Truthy(data_testid) \/ ~Contains(data_testid[1], s_post))

\* a final validation that every container passes
has_modern_post_class_Always(c) == TRUE

\* 2. class_attr = get_attribute("class") or "", any(cls in class_attr ...)
has_modern_post_class(c) ==
    LET class_attr == OrDefault(c.class_attr, <<>>)
    IN  \E i \in 1..Len(modern_post_classes) :
            Contains(class_attr, modern_post_classes[i])

\* a classifier that turns down whatever it meets once a post is recorded
_is_actual_post_UntilFirstPost(c) ==
    /\ posts = <<>>
    /\ ~c.stale
    /\ ~PrimaryGateFails(c.role, c.data_testid)
    /\ has_modern_post_class(c)

\* a classifier that accepts whatever passed the four gates
_is_actual_post_GatesOnly(c) ==
    /\ ~c.stale
    /\ ~PrimaryGateFails(c.role, c.data_testid)
    /\ AnyMatch(c, post_message_selectors)
    /\ AnyMatch(c, author_selectors)
    /\ ~AnyMatch(c, non_post_indicators)

_is_actual_post(c) ==
    IF c.stale THEN FALSE                                 \* except Exception
    ELSE IF PrimaryGateFails(c.role, c.data_testid) THEN FALSE
    ELSE IF ~AnyMatch(c, post_message_selectors) THEN FALSE   \* 3.
    ELSE IF ~AnyMatch(c, author_selectors) THEN FALSE         \* 4.
    ELSE IF AnyMatch(c, non_post_indicators) THEN FALSE       \* 5.
    ELSE has_modern_post_class(c) \/ AnyMatch(c, engagement_selectors)

(***************************************************************************)
(* _wait_for_container_loaded: two passes over wait_selectors, the second  *)
(* after a delay, on the container as it is then (c2).                     *)
(***************************************************************************)
WaitPass(c) ==
    /\ ~c.stale
    /\ \E i \in 1..Len(wait_selectors) :
          LET elements == find_elements(c, wait_selectors[i])
          IN  elements # <<>> /\ AnyDisplayed(elements)

_wait_for_container_loaded(drv, c, c2) ==
    IF ~drv THEN FALSE ELSE WaitPass(c) \/ WaitPass(c2)

(***************************************************************************)
(* _click_expandable_buttons: per selector, the first displayed and        *)
(* enabled button is clicked; the value is buttons_clicked.  clickFails:   *)
(* human_click raises, which the helper swallows.                          *)
(***************************************************************************)
\* HumanBehavior.human_click: the element.click() calls it issues, whether
\* one of them completed, and whether the call raises.  preRaises: the
\* scroll into view or the mouse movement raises; clickRaises: the click of
\* the try block raises; fallbackRaises: the click of the except block raises.
human_click(drv, preRaises, clickRaises, fallbackRaises) ==
    IF ~drv THEN [calls |-> 0, completed |-> 0, raised |-> FALSE]
    ELSE IF ~preRaises /\ ~clickRaises
    THEN [calls |-> 1, completed |-> 1, raised |-> FALSE]
    ELSE [calls |-> IF preRaises THEN 1 ELSE 2,
          completed |-> IF fallbackRaises THEN 0 ELSE 1,
          raised |-> fallbackRaises]

HasClickable(c, selector) ==
    LET buttons == find_elements(c, selector)
    IN  \E j \in 1..Len(buttons) : buttons[j].displayed /\ buttons[j].enabled

\* a helper that clicks every displayed and enabled button it finds
_click_every_button(drv, c, clickFails) ==
    IF ~drv \/ c.stale \/ clickFails THEN 0
    ELSE Cardinality({<<i, j>> \in (1..Len(expand_button_selectors)) \X (1..NumElems + 2) :
                        /\ j <= Len(find_elements(c, expand_button_selectors[i]))
                        /\ find_elements(c, expand_button_selectors[i])[j].displayed
                        /\ find_elements(c, expand_button_selectors[i])[j].enabled})

_click_expandable_buttons(drv, c, clickFails) ==
    IF ~drv \/ c.stale \/ clickFails THEN 0
    ELSE Cardinality({i \in 1..Len(expand_button_selectors) :
                        HasClickable(c, expand_button_selectors[i])})

\* the container after buttons_clicked clicks
AfterClick(c, buttons_clicked) ==
    IF buttons_clicked > 0 THEN [c EXCEPT !.q = c.q_expanded] ELSE c

(***************************************************************************)
(* extract_content_data                                                    *)
(***************************************************************************)
RECURSIVE FlattenFrom(_, _, _)
FlattenFrom(c, selectors, i) ==
    IF i > Len(selectors) THEN <<>>
    ELSE find_elements(c, selectors[i]) \o FlattenFrom(c, selectors, i + 1)

\* the elements of every selector of the list, in the order the loops visit them
Flatten(c, selectors) == FlattenFrom(c, selectors, 1)

\* the first displayed element with a non-empty stripped text of one selector
FirstText(elems) ==
    LET ok == SelectSeq(elems, LAMBDA e : e.displayed /\ Strip(e.text) # <<>>)
    IN  IF ok = <<>> THEN None ELSE Some(Strip(ok[1].text))

RECURSIVE PostTextFrom(_, _)
PostTextFrom(c, i) ==
    IF i > Len(post_text_selectors) THEN None
    ELSE LET t == FirstText(find_elements(c, post_text_selectors[i]))
         IN  IF t # None THEN t ELSE PostTextFrom(c, i + 1)

ImageInfos(c) ==
    LET es == SelectSeq(Flatten(c, image_container_selectors),
                        LAMBDA e : e.displayed /\ Truthy(e.src)
                                   /\ Contains(e.src[1], s_scontent))
    IN  [k \in 1..Len(es) |-> [kind |-> "img", ref |-> es[k].src[1]]]

RECURSIVE AddLinks(_, _)
AddLinks(images, links) ==
    IF links = <<>> THEN images
    ELSE LET l == Head(links)
             href == l.href
             wanted == l.displayed /\ Truthy(href)
                       /\ (Contains(href[1], s_photo) \/ Contains(href[1], s_story_fbid))
             known == \E k \in 1..Len(images) :
                         images[k].kind = "link" /\ images[k].ref = href[1]
         IN  IF wanted /\ ~known
             THEN AddLinks(Append(images, [kind |-> "link", ref |-> href[1]]), Tail(links))
             ELSE AddLinks(images, Tail(links))

\* None, or Some([post_text, images]); a raising browser call leaves the
\* part being extracted empty
extract_content_data(c) ==
    LET post_text == IF c.stale THEN None ELSE PostTextFrom(c, 1)
        images == IF c.stale THEN <<>>
                  ELSE AddLinks(ImageInfos(c), Flatten(c, image_link_selectors))
    IN  IF post_text # None \/ images # <<>>
        THEN Some([post_text |-> post_text, images |-> images])
        ELSE None

(***************************************************************************)
(* _capture_screenshot_with_wait: the file path, or None when the driver   *)
(* is missing or container.screenshot raises.  The timestamp part of the   *)
(* file name is left out.                                                  *)
(***************************************************************************)
_capture_screenshot_with_wait(drv, screenshotFails, post_index) ==
    IF ~drv \/ screenshotFails THEN None
    ELSE Some(s_post_prefix \o Format03d(post_index) \o s_png)

(***************************************************************************)
(* The containers of the feed.  Container e of the feed shows one of three *)
(* snapshots: a post with text and a "See more" button, a post recognised  *)
(* by its data-testid whose message is blank, and a comment.               *)
(***************************************************************************)
PostWithText ==
    [role |-> Some(s_article), data_testid |-> None,
     class_attr |-> Some(s_modern_class), stale |-> FALSE,
     q |-> [EmptyQ EXCEPT
              !["[data-testid='post_message']"] = <<El(TRUE, s_hello)>>,
              !["div[data-testid='post_message']"] = <<El(TRUE, s_hello)>>,
              !["h3 a"] = <<El(TRUE, s_feed)>>,
              !["a[href*='/']"] = <<El(TRUE, s_feed)>>,
              ![expand_button_selectors[1]] = <<El(TRUE, s_post)>>],
     q_expanded |-> [EmptyQ EXCEPT
              !["[data-testid='post_message']"] = <<El(TRUE, s_hello_more)>>,
              !["div[data-testid='post_message']"] = <<El(TRUE, s_hello_more)>>,
              !["h3 a"] = <<El(TRUE, s_feed)>>,
              !["a[href*='/']"] = <<El(TRUE, s_feed)>>]]

PostWithoutContent ==
    LET q == [EmptyQ EXCEPT
                !["[data-testid='message']"] = <<El(TRUE, s_blank)>>,
                !["div[data-testid='message']"] = <<El(TRUE, s_blank)>>,
                !["a[href*='/']"] = <<El(TRUE, s_feed)>>,
                !["[data-testid='UFI2ReactionsCount']"] = <<El(TRUE, s_blank)>>]
    IN  [role |-> None, data_testid |-> Some(s_post_container),
         class_attr |-> Some(s_plain_class), stale |-> FALSE,
         q |-> q, q_expanded |-> q]

CommentContainer ==
    LET q == [EmptyQ EXCEPT
                !["[data-testid='message']"] = <<El(TRUE, s_hello)>>,
                !["div[data-testid='message']"] = <<El(TRUE, s_hello)>>,
                !["h3 a"] = <<El(TRUE, s_feed)>>,
                !["[data-testid='comment']"] = <<El(FALSE, s_comment)>>]
    IN  [role |-> Some(s_article), data_testid |-> Some(s_comment),
         class_attr |-> Some(s_modern_class), stale |-> FALSE,
         q |-> q, q_expanded |-> q]

Fixture(e) ==
    CASE e % 3 = 1 -> PostWithText
      [] e % 3 = 2 -> PostWithoutContent
      [] OTHER -> CommentContainer

Stale(c) == [c EXCEPT !.stale = TRUE]

\* no container under test
NoInput == <<>>

(***************************************************************************)
(* save_content_data_to_detailed_json: the path written, or "" (<<>>).     *)
(* post.get("content_data", {}) is None for a record whose content_data    *)
(* is None, and None.get(...) raises inside the helper's try.              *)
(***************************************************************************)
save_content_data_to_detailed_json(ps, writeFails) ==
    IF ps = <<>> THEN <<>>
    ELSE IF \E k \in 1..Len(ps) : ps[k].content_data = None THEN <<>>
    ELSE IF writeFails THEN <<>>
    ELSE s_json

(***************************************************************************)
(* scrape_posts                                                            *)
(***************************************************************************)
Faults == {"none", "attrs", "wait", "click", "extract", "classify", "capture"}

Init ==
    /\ pc = "start"
    /\ driver \in BOOLEAN
    /\ is_authenticated \in BOOLEAN
    /\ validate_posts \in BOOLEAN
    /\ max_posts \in 0..MaxPosts
    /\ posts = <<>>
    /\ scroll_attempts = 0
    /\ post_containers = <<>>
    /\ idx = 1
    /\ result = <<>>
    /\ raised = FALSE
    /\ ev = "init"
    /\ detailed_json_path = <<>>
    /\ db = <<>>
    /\ page = "blank"
    /\ NoOtherActivity
    /\ cin = NoInput
    /\ cout = None

\* `return value`
Return(value) ==
    /\ pc' = "done"
    /\ result' = value
    /\ UNCHANGED raised

\* an outer handler that lets the exception through
OuterExcept_Propagates ==
    /\ pc' = "done"
    /\ result' = <<>>
    /\ raised' = TRUE

\* except Exception as e: ... return []   (the outer try of scrape_posts)
OuterExcept ==
    /\ pc' = "done"
    /\ result' = <<>>
    /\ UNCHANGED raised

\* if not self.driver: return []
NoDriver ==
    /\ pc = "start"
    /\ ~driver
    /\ Return(<<>>)
    /\ ev' = "no_driver"
    /\ UNCHANGED <<driver, is_authenticated, validate_posts, max_posts, posts,
                   scroll_attempts, post_containers, idx, detailed_json_path, cin, cout, db, page, otherVars>>

\* self.driver.get(target_url) raises
NavigateThrows ==
    /\ pc = "start"
    /\ driver
    /\ OuterExcept
    /\ ev' = "navigate_throws"
    /\ UNCHANGED <<driver, is_authenticated, validate_posts, max_posts, posts,
                   scroll_attempts, post_containers, idx, detailed_json_path, cin, cout, db, page, otherVars>>

\* a gate that trusts every session
NeedsLoginCheck_Never == FALSE

\* if not self.is_authenticated:
NeedsLoginCheck == ~is_authenticated

\* self.driver.get(target_url); then the login gate or the loop
NavigateOk ==
    /\ pc = "start"
    /\ driver
    /\ page' = "target"
    /\ pc' = IF NeedsLoginCheck THEN "auth" ELSE "while"
    /\ posts' = <<>>
    /\ scroll_attempts' = 0
    /\ ev' = "navigate_ok"
    /\ UNCHANGED <<driver, is_authenticated, validate_posts, max_posts,
                   post_containers, idx, result, raised, detailed_json_path,
                   cin, cout, db, otherVars>>

\* _check_if_already_logged_in returns False, having loaded facebook.com or
\* failed to (driver.get raises inside its try); then `return []`
LoginCheckFails ==
    /\ pc = "auth"
    /\ \E loaded \in BOOLEAN : page' = IF loaded THEN "home" ELSE page
    /\ Return(<<>>)
    /\ ev' = "login_fail"
    /\ UNCHANGED <<driver, is_authenticated, validate_posts, max_posts, posts,
                   scroll_attempts, post_containers, idx, detailed_json_path,
                   cin, cout, db, otherVars>>

\* _check_if_already_logged_in loads facebook.com and returns True; then
\* self.driver.get(target_url) again
LoginCheckOk ==
    /\ pc = "auth"
    /\ page' = "target"
    /\ pc' = "while"
    /\ posts' = <<>>
    /\ scroll_attempts' = 0
    /\ ev' = "login_ok"
    /\ UNCHANGED <<driver, is_authenticated, validate_posts, max_posts,
                   post_containers, idx, result, raised, detailed_json_path,
                   cin, cout, db, otherVars>>

\* already logged in, the second self.driver.get(target_url) raises
RenavigateThrows ==
    /\ pc = "auth"
    /\ page' = "home"
    /\ OuterExcept
    /\ ev' = "renavigate_throws"
    /\ UNCHANGED <<driver, is_authenticated, validate_posts, max_posts, posts,
                   scroll_attempts, post_containers, idx, detailed_json_path,
                   cin, cout, db, otherVars>>

\* a loop that allows one scroll too many
WhileCond_OffByOne ==
    Len(posts) < max_posts /\ scroll_attempts <= max_scroll_attempts

\* while len(posts) < max_posts and scroll_attempts < max_scroll_attempts
WhileCond ==
    Len(posts) < max_posts /\ scroll_attempts < max_scroll_attempts

\* a handler that gives up the call when the feed query raises
QueryExcept_Terminal ==
    /\ OuterExcept
    /\ UNCHANGED <<post_containers, idx>>

\* except Exception as e: logger.debug("Feed structure not found")
QueryExcept ==
    /\ post_containers' = <<>>
    /\ idx' = 1
    /\ pc' = "for"
    /\ UNCHANGED <<result, raised>>

\* the feed query returns the first k containers of the feed, in document order
QueryOk ==
    /\ pc = "while"
    /\ WhileCond
    /\ \E k \in 0..NumElems : post_containers' = [i \in 1..k |-> i]
    /\ idx' = 1
    /\ pc' = "for"
    /\ ev' = "query_ok"
    /\ UNCHANGED <<driver, is_authenticated, validate_posts, max_posts, posts,
                   scroll_attempts, result, raised, detailed_json_path, cin, cout, db, page, otherVars>>

\* find_element / find_elements raises
QueryThrows ==
    /\ pc = "while"
    /\ WhileCond
    /\ QueryExcept
    /\ ev' = "query_throws"
    /\ UNCHANGED <<driver, is_authenticated, validate_posts, max_posts, posts,
                   scroll_attempts, detailed_json_path, cin, cout, db, page, otherVars>>

\* the while condition is false
LoopExit ==
    /\ pc = "while"
    /\ ~WhileCond
    /\ pc' = "save"
    /\ ev' = "loop_exit"
    /\ UNCHANGED <<driver, is_authenticated, validate_posts, max_posts, posts,
                   scroll_attempts, post_containers, idx, result, raised, detailed_json_path, cin, cout, db, page, otherVars>>

(***************************************************************************)
(* The body of `for i, container in enumerate(post_containers)` for one    *)
(* container.  c is the container, e its identity in the feed, f the       *)
(* browser call that fails (Faults), i the 1-based position (i + 1 of the  *)
(* code), n = len(posts), drv and validate the fields self.driver and      *)
(* self.validate_posts.                                                    *)
(***************************************************************************)
\* a record assembled without the path of its screenshot
PostData_NoScreenshot(c, e, n, screenshot_path, content_data) ==
    [post_id |-> s_post_prefix \o Format03d(n + 1),
     screenshot_path |-> <<>>,
     is_valid_post |-> TRUE,
     container_info |-> [role |-> OrDefault(c.role, s_no_role),
                         data_testid |-> OrDefault(c.data_testid, s_no_testid),
                         class |-> OrDefault(c.class_attr, s_no_class)],
     content_data |-> content_data,
     elem |-> e]

PostData(c, e, n, screenshot_path, content_data) ==
    [post_id |-> s_post_prefix \o Format03d(n + 1),
     screenshot_path |-> screenshot_path,
     is_valid_post |-> TRUE,
     container_info |-> [role |-> OrDefault(c.role, s_no_role),
                         data_testid |-> OrDefault(c.data_testid, s_no_testid),
                         class |-> OrDefault(c.class_attr, s_no_class)],
     content_data |-> content_data,
     elem |-> e]

ExpandSteps(buttons_clicked) ==
    <<"expand">> \o [k \in 1..buttons_clicked |-> "click"]

\* a loop that classifies whatever the validation switch says
Validates_Always(validate) == TRUE

\* if self.validate_posts:
Validates(validate) == validate

ProcessContainer(c, e, f, i, n, drv, validate) ==
    LET cw == IF f = "wait" THEN Stale(c) ELSE c
        loaded == _wait_for_container_loaded(drv, cw, cw)
        buttons_clicked == _click_expandable_buttons(drv, c, f = "click")
        c1 == AfterClick(c, buttons_clicked)
        content_data == extract_content_data(IF f = "extract" THEN Stale(c1) ELSE c1)
        is_valid_post == _is_actual_post(IF f = "classify" THEN Stale(c1) ELSE c1)
        screenshot_path == _capture_screenshot_with_wait(drv, f = "capture", i)
        upToExtract == <<"attrs", "wait">> \o ExpandSteps(buttons_clicked) \o <<"extract">>
        upToClassify == IF Validates(validate) THEN upToExtract \o <<"classify">>
                        ELSE upToExtract
    IN  IF f = "attrs"
        THEN [outcome |-> "container_error", steps |-> <<"attrs">>, record |-> None]
        ELSE IF ~loaded
        THEN [outcome |-> "not_loaded", steps |-> <<"attrs", "wait">>, record |-> None]
        ELSE IF Validates(validate) /\ ~is_valid_post
        THEN [outcome |-> "rejected", steps |-> upToClassify, record |-> None]
        ELSE IF screenshot_path = None
        THEN [outcome |-> "capture_failed", steps |-> upToClassify \o <<"capture">>,
              record |-> None]
        ELSE [outcome |-> "captured",
              steps |-> upToClassify \o <<"capture", "append">>,
              record |-> Some(PostData(c, e, n, screenshot_path[1], content_data))]

\* the failing call f is one the body makes for container c
FaultApplies(c, f, drv, validate) ==
    LET loaded == _wait_for_container_loaded(drv, c, c)
    IN  \/ f \in {"none", "attrs", "wait"}
        \/ f = "click" /\ loaded
           /\ _click_expandable_buttons(drv, c, FALSE) > 0
        \/ f = "extract" /\ loaded
        \/ f = "classify" /\ loaded /\ validate
        \/ f = "capture" /\ loaded
           /\ (~validate
               \/ _is_actual_post(AfterClick(c, _click_expandable_buttons(drv, c, FALSE))))

\* the body's result for every container of the feed, computed once
\* (self.driver is set whenever the loop runs)
ProcessTable ==
    [e \in Elems, f \in Faults, validate \in BOOLEAN, i \in Elems, n \in 0..MaxPosts |->
        IF FaultApplies(Fixture(e), f, TRUE, validate)
        THEN Some(ProcessContainer(Fixture(e), e, f, i, n, TRUE, validate))
        ELSE None]

\* a for loop without the early exit
ForBreak_Never == FALSE

\* if len(posts) >= max_posts: break
ForBreak == Len(posts) >= max_posts

\* a handler that gives up the call when one container fails
ContainerExcept_Abort ==
    /\ OuterExcept
    /\ UNCHANGED <<idx, posts>>

\* except Exception as e: logger.warning(...); continue
ContainerExcept ==
    /\ idx' = idx + 1
    /\ pc' = "for"
    /\ UNCHANGED <<posts, result, raised>>

\* one pass of the for body that ends in `outcome` while call f fails
ContainerStepOn(outcome, f) ==
    /\ pc = "for"
    /\ idx <= Len(post_containers)
    /\ ~ForBreak
    /\ LET e == post_containers[idx]
           t == ProcessTable[e, f, validate_posts, idx, Len(posts)]
           r == t[1]
       IN  /\ t # None
           /\ r.outcome = outcome
           /\ IF r.outcome = "container_error"
              THEN ContainerExcept
              ELSE /\ idx' = idx + 1
                   /\ pc' = "for"
                   /\ posts' = IF r.record = None THEN posts
                               ELSE Append(posts, r.record[1])
                   /\ UNCHANGED <<result, raised>>
           /\ ev' = r.outcome
    /\ UNCHANGED <<driver, is_authenticated, validate_posts, max_posts,
                   scroll_attempts, post_containers, detailed_json_path, cin, cout, db, page, otherVars>>

ContainerStep(outcome) == \E f \in Faults : ContainerStepOn(outcome, f)

ContainerError ==
    /\ pc = "for"
    /\ ContainerStep("container_error")

ContainerNotLoaded ==
    /\ pc = "for"
    /\ ContainerStep("not_loaded")

ContainerRejected ==
    /\ pc = "for"
    /\ ContainerStep("rejected")

ContainerCaptureFailed ==
    /\ pc = "for"
    /\ ContainerStep("capture_failed")

ContainerCaptured ==
    /\ pc = "for"
    /\ ContainerStep("captured")


\* the for loop is over: exhausted, or left by its break
EndOfFor ==
    /\ pc = "for"
    /\ (idx > Len(post_containers) \/ ForBreak)

\* a scroll that is made whether or not more posts are needed
ScrollNeeded_Always == TRUE

\* if len(posts) < max_posts: scroll ... else: break
ScrollNeeded == Len(posts) < max_posts

\* a scroll that forgets to count itself
ScrollCount_Forgotten == scroll_attempts' = scroll_attempts

\* scroll_attempts += 1
ScrollCount == scroll_attempts' = scroll_attempts + 1

\* human_scroll("down", ...) and random_delay return
ScrollOk ==
    /\ EndOfFor
    /\ ScrollNeeded
    /\ ScrollCount
    /\ pc' = "while"
    /\ ev' = "scroll_ok"
    /\ UNCHANGED <<driver, is_authenticated, validate_posts, max_posts, posts,
                   post_containers, idx, result, raised, detailed_json_path, cin, cout, db, page, otherVars>>

\* human_scroll raises (driver.execute_script)
ScrollThrows ==
    /\ EndOfFor
    /\ ScrollNeeded
    /\ OuterExcept
    /\ ev' = "scroll_throws"
    /\ UNCHANGED <<driver, is_authenticated, validate_posts, max_posts, posts,
                   scroll_attempts, post_containers, idx, detailed_json_path, cin, cout, db, page, otherVars>>

\* else: break
BreakFull ==
    /\ EndOfFor
    /\ ~ScrollNeeded
    /\ pc' = "save"
    /\ ev' = "break_full"
    /\ UNCHANGED <<driver, is_authenticated, validate_posts, max_posts, posts,
                   scroll_attempts, post_containers, idx, result, raised, detailed_json_path, cin, cout, db, page, otherVars>>

\* if posts: is false; return posts
ReturnEmpty ==
    /\ pc = "save"
    /\ posts = <<>>
    /\ Return(posts)
    /\ ev' = "return_empty"
    /\ UNCHANGED <<driver, is_authenticated, validate_posts, max_posts, posts,
                   scroll_attempts, post_containers, idx, detailed_json_path, cin, cout, db, page, otherVars>>

\* the export wrote the file; return posts
SaveOk ==
    /\ pc = "save"
    /\ posts # <<>>
    /\ save_content_data_to_detailed_json(posts, FALSE) # <<>>
    /\ detailed_json_path' = save_content_data_to_detailed_json(posts, FALSE)
    /\ Return(posts)
    /\ ev' = "save_ok"
    /\ UNCHANGED <<driver, is_authenticated, validate_posts, max_posts, posts,
                   scroll_attempts, post_containers, idx, cin, cout, db, page, otherVars>>

\* the export returned "" (or raised into the inner except); return posts
SaveFails ==
    /\ pc = "save"
    /\ posts # <<>>
    /\ \E writeFails \in BOOLEAN :
          save_content_data_to_detailed_json(posts, writeFails) = <<>>
    /\ detailed_json_path' = <<>>
    /\ Return(posts)
    /\ ev' = "save_failed"
    /\ UNCHANGED <<driver, is_authenticated, validate_posts, max_posts, posts,
                   scroll_attempts, post_containers, idx, cin, cout, db, page, otherVars>>

Next ==
    \/ NoDriver
    \/ NavigateThrows
    \/ NavigateOk
    \/ LoginCheckFails
    \/ LoginCheckOk
    \/ RenavigateThrows
    \/ QueryOk
    \/ QueryThrows
    \/ LoopExit
    \/ ContainerError
    \/ ContainerNotLoaded
    \/ ContainerRejected
    \/ ContainerCaptureFailed
    \/ ContainerCaptured
    \/ ScrollOk
    \/ ScrollThrows
    \/ BreakFull
    \/ ReturnEmpty
    \/ SaveOk
    \/ SaveFails

Spec == Init /\ [][Next]_vars

(***************************************************************************)
(* _is_actual_post as a function of what the container shows.  An input    *)
(* describes a container: its three attributes, and for each selector      *)
(* group the selector that matches ("" for none) and whether the matched   *)
(* element is displayed.                                                   *)
(***************************************************************************)
SnapshotOf(d) ==
    LET one(sel, want, shown) == IF sel = want THEN <<El(shown, s_hello)>> ELSE <<>>
        q == [s \in AllSelectors |->
                one(s, d.msgSel, d.msgShown) \o one(s, d.authorSel, TRUE)
                \o one(s, d.nonPostSel, d.nonPostShown) \o one(s, d.engagementSel, TRUE)]
    IN  [role |-> d.role, data_testid |-> d.data_testid,
         class_attr |-> d.class_attr, stale |-> d.stale,
         q |-> q, q_expanded |-> q]

ClassifyInputs ==
    [role : {None, Some(s_article), Some(s_feed)},
     data_testid : {None, Some(<<>>), Some(s_post_container), Some(s_comment)},
     class_attr : {None, Some(s_plain_class), Some(s_modern_class)},
     msgSel : {""} \cup Range(post_message_selectors),
     msgShown : BOOLEAN,
     authorSel : {"", "h3 a", "a[href*='/']"},
     nonPostSel : {""} \cup Range(non_post_indicators),
     nonPostShown : BOOLEAN,
     engagementSel : {"", "[aria-label*='share']"},
     stale : BOOLEAN]

InitClassify ==
    /\ cin \in {d \in ClassifyInputs :
                  /\ d.msgSel = "" => d.msgShown
                  /\ d.nonPostSel = "" => d.nonPostShown}
    /\ cout = None
    /\ pc = "classify"
    /\ driver = TRUE
    /\ is_authenticated = TRUE
    /\ validate_posts = TRUE
    /\ max_posts = 0
    /\ posts = <<>>
    /\ scroll_attempts = 0
    /\ post_containers = <<>>
    /\ idx = 1
    /\ result = <<>>
    /\ raised = FALSE
    /\ ev = "init"
    /\ detailed_json_path = <<>>
    /\ db = <<>>
    /\ page = "blank"
    /\ NoOtherActivity

\* is_valid_post = self._is_actual_post(container)
Classify ==
    /\ pc = "classify"
    /\ cout = None
    /\ cout' = Some(_is_actual_post(SnapshotOf(cin)))
    /\ UNCHANGED <<cin, loopVars, db, page, otherVars>>

\* between two meetings of a container the loop moves on: an accepted
\* container is recorded and the page is scrolled
MoveOn ==
    /\ pc = "classify"
    /\ cout # None
    /\ scroll_attempts = 0
    /\ scroll_attempts' = scroll_attempts + 1
    /\ posts' = IF cout[1]
                THEN Append(posts, PostData(SnapshotOf(cin), 1, Len(posts),
                                            s_png, None))
                ELSE posts
    /\ UNCHANGED <<cin, cout, pc, driver, is_authenticated, validate_posts,
                   max_posts, post_containers, idx, result, raised, ev,
                   detailed_json_path, db, page, otherVars>>

\* the same container, unchanged, met again in the next cycle
ClassifyAgain ==
    /\ pc = "classify"
    /\ cout # None
    /\ scroll_attempts = 1
    /\ idx = 1
    /\ cout' = Some(_is_actual_post(SnapshotOf(cin)))
    /\ idx' = idx + 1
    /\ UNCHANGED <<cin, pc, driver, is_authenticated, validate_posts, max_posts,
                   posts, scroll_attempts, post_containers, result, raised, ev,
                   detailed_json_path, db, page, otherVars>>

NextClassify == Classify \/ MoveOn \/ ClassifyAgain

SpecClassify == InitClassify /\ [][NextClassify]_vars

(***************************************************************************)
(* Properties of scrape_posts, stated for Spec.                            *)
(***************************************************************************)
IsPrefix(s, t) == Len(s) <= Len(t) /\ SubSeq(t, 1, Len(s)) = s

\* scrape_posts returned through `return posts`, not through an early
\* `return []` or the outer handler
NormalReturn == pc = "done" /\ ev \in {"return_empty", "save_ok", "save_failed"}

\* C1: the list scrape_posts builds and returns never holds more than
\* max_posts records: capturing stops as soon as the target is reached, even
\* in the middle of a cycle with containers left.
C1_AtMostMaxPosts ==
    /\ Len(posts) <= max_posts
    /\ pc = "done" => Len(result) <= max_posts

\* the call returned a full list while a container of the cycle was left over
C1_Witness ==
    /\ NormalReturn
    /\ max_posts = 1
    /\ Len(result) = 1
    /\ idx <= Len(post_containers)

\* C2 (as stated): a container that was captured in an earlier cycle is not
\* captured again: no two records of the list come from the same container.
C2_NoContainerCapturedTwice ==
    \A i, j \in 1..Len(posts) : i # j => posts[i].elem # posts[j].elem

\* the containers of the feed that the classifier accepts
ValidElems == {e \in Elems : _is_actual_post(Fixture(e))}

\* C3 (as stated): with validation on, a page that exposes exactly 2 valid
\* posts and a target above 2: a call that captured both returns exactly those
\* 2 records, after the scroll budget is exhausted.
C3_TwoValidPostsGiveTwoRecords ==
    ( /\ NormalReturn
      /\ validate_posts
      /\ Cardinality(ValidElems) = 2
      /\ max_posts > 2
      /\ {result[k].elem : k \in 1..Len(result)} = ValidElems )
    => /\ Len(result) = 2
       /\ scroll_attempts = max_scroll_attempts

\* C4 (as stated): a call returns before max_scroll_attempts scrolls exactly
\* when the returned list holds max_posts records; every call that returns
\* fewer has scrolled exactly max_scroll_attempts times.
C4_EarlyReturnOnlyWhenFull ==
    pc = "done" =>
       /\ scroll_attempts < max_scroll_attempts <=> Len(result) >= max_posts
       /\ Len(result) < max_posts => scroll_attempts = max_scroll_attempts

\* C4 (amended): a call that returns through `return posts` has scrolled
\* fewer than max_scroll_attempts times exactly when the list reached
\* max_posts, and a short list means exactly max_scroll_attempts scrolls; a
\* call that ends in a terminal failure (no driver, login check, navigation
\* or scroll raising) returns [] before the budget is used up.
C4_NormalReturnFullOrExhausted ==
    /\ NormalReturn =>
          /\ scroll_attempts < max_scroll_attempts <=> Len(result) >= max_posts
          /\ Len(result) < max_posts => scroll_attempts = max_scroll_attempts
    /\ (pc = "done" /\ ~NormalReturn) =>
          /\ result = <<>>
          /\ scroll_attempts < max_scroll_attempts

\* a short, non-empty list returned after the whole scroll budget
C4_Witness ==
    /\ NormalReturn
    /\ Len(result) > 0
    /\ Len(result) < max_posts
    /\ scroll_attempts = max_scroll_attempts

\* a variant of the call: it decreases with every step scrape_posts takes
Rank ==
    LET W == NumElems + 3
        left == max_scroll_attempts - scroll_attempts
    IN  CASE pc = "done"  -> 0
          [] pc = "save"  -> 1
          [] pc = "for"   -> 2 + left * W + (NumElems + 1 - idx)
          [] pc = "while" -> 2 + left * W + (W - 1)
          [] pc = "auth"  -> 2 + (max_scroll_attempts + 1) * W + 1
          [] pc = "start" -> 2 + (max_scroll_attempts + 1) * W + 2

\* C5: every call terminates: scroll_attempts starts at 0, moves only by +1
\* and only in a scroll step, never exceeds max_scroll_attempts; every step
\* of the call decreases a natural-number variant and a call that has not
\* returned can always take a step; a call that used up the budget while
\* short of the target returns the accumulated list, not an error.
C5_Terminates ==
    /\ [](/\ scroll_attempts \in 0..max_scroll_attempts
          /\ Rank \in Nat
          /\ pc \in {"start", "auth"} => scroll_attempts = 0
          /\ pc # "done" => ENABLED Next
          /\ (NormalReturn /\ Len(posts) < max_posts) =>
                /\ scroll_attempts = max_scroll_attempts
                /\ result = posts
                /\ ~raised)
    /\ [][/\ Rank' < Rank
          /\ ev' = "scroll_ok" => scroll_attempts' = scroll_attempts + 1
          /\ ev' # "scroll_ok" => scroll_attempts' = scroll_attempts]_vars

\* the budget ran out with nothing accumulated: the call returned []
C5_Witness ==
    /\ pc = "done"
    /\ ev = "return_empty"
    /\ max_posts > 0
    /\ scroll_attempts = max_scroll_attempts
    /\ result = <<>>
    /\ ~raised

\* C6: once the accumulator reaches max_posts inside a cycle, the only steps
\* left are the break and the return: no container is processed (idx and the
\* accumulator stay), no scroll is counted, and the list is returned.
C6_TruncatesAtTarget ==
    /\ [][(pc = "for" /\ Len(posts) >= max_posts) =>
             /\ pc' = "save"
             /\ ev' = "break_full"
             /\ UNCHANGED <<posts, idx, post_containers, scroll_attempts>>]_vars
    /\ [][(pc = "save" /\ ev = "break_full") =>
             /\ pc' = "done"
             /\ result' = posts
             /\ UNCHANGED <<posts, idx, post_containers, scroll_attempts>>]_vars

\* the target was reached with a container of the cycle still unprocessed
C6_Witness ==
    /\ pc = "done"
    /\ ev \in {"save_ok", "save_failed"}
    /\ Len(result) = max_posts
    /\ idx <= Len(post_containers)
    /\ scroll_attempts = 0

Outcomes == {"container_error", "not_loaded", "rejected", "capture_failed", "captured"}

C8_QueryOrScrollFailureIsTerminal ==
    ev \in {"query_throws", "scroll_throws"} =>
       /\ pc = "done"
       /\ result = <<>>

\* C8 (amended): the scroll raising ends the call, which returns [] whatever
\* was accumulated and takes no further step; the feed query raising is
\* caught inside the cycle: the cycle sees no containers, the accumulator is
\* kept and the loop goes on to the scroll.
C8_ScrollFailureIsTerminal ==
    /\ [](/\ ev = "scroll_throws" =>
                /\ pc = "done"
                /\ result = <<>>
                /\ ~raised
          /\ pc = "done" => ~ENABLED Next
          /\ ev = "query_throws" =>
                /\ pc = "for"
                /\ post_containers = <<>>
                /\ Len(posts) < max_posts
                /\ ENABLED ScrollOk)
    /\ [][ev' = "query_throws" => UNCHANGED <<posts, scroll_attempts>>]_vars

\* the scroll raised after records had been accumulated: [] is returned
C8_Witness ==
    /\ pc = "done"
    /\ ev = "scroll_throws"
    /\ posts # <<>>
    /\ result = <<>>

\* C9: scrape_posts never raises: whatever fails (navigation, login check,
\* feed query, scroll, export), the call returns a list, empty or the
\* accumulated one.
C9_NeverRaises ==
    /\ ~raised
    /\ pc = "done" => result \in {<<>>, posts}
    /\ ev \in {"navigate_throws", "renavigate_throws", "login_fail", "scroll_throws"} =>
          pc = "done" /\ result = <<>>
    /\ ev = "save_failed" => pc = "done" /\ result = posts /\ posts # <<>>

\* navigation raised and the call returned []
C9_Witness ==
    /\ pc = "done"
    /\ ev = "navigate_throws"
    /\ result = <<>>
    /\ ~raised

(***************************************************************************)
(* Properties of _is_actual_post, stated for SpecClassify.                 *)
(***************************************************************************)
\* C10: a container whose role is not "article" and whose data-testid is
\* absent or does not contain "post" is classified as not a post, whatever
\* its classes and descendants are.
C10_NoRoleNoTestidIsNotAPost ==
    ( /\ cout # None
      /\ cin.role # Some(s_article)
      /\ cin.data_testid = None \/ ~Contains(cin.data_testid[1], s_post) )
    => cout = Some(FALSE)

\* a container with a modern class, a message, an author and engagement
\* buttons, but neither the role nor the test id, was rejected
C10_Witness ==
    /\ cout = Some(FALSE)
    /\ cin.role = Some(s_feed)
    /\ cin.data_testid = Some(s_comment)
    /\ cin.class_attr = Some(s_modern_class)
    /\ cin.msgSel # ""
    /\ cin.authorSel # ""
    /\ cin.nonPostSel = ""
    /\ cin.engagementSel # ""
    /\ ~cin.stale

\* C11: a container with a descendant matching a comment / reply indicator,
\* displayed or not, is classified as not a post, whatever else it shows.
C11_NonPostIndicatorRejects ==
    (cout # None /\ cin.nonPostSel # "") => cout = Some(FALSE)

\* a container passing the role, message and author gates, with a modern
\* class and engagement, was rejected for a hidden comment indicator
C11_Witness ==
    /\ cout = Some(FALSE)
    /\ cin.role = Some(s_article)
    /\ cin.data_testid = Some(s_post_container)
    /\ cin.class_attr = Some(s_modern_class)
    /\ cin.msgSel # "" /\ cin.msgShown
    /\ cin.authorSel # ""
    /\ cin.nonPostSel # "" /\ ~cin.nonPostShown
    /\ cin.engagementSel # ""
    /\ ~cin.stale

\* the container of C12: role "article", a message element, an author link,
\* no comment / reply indicator, and every browser call answers
ArticleWithMessageAndAuthor ==
    /\ cout # None
    /\ cin.role = Some(s_article)
    /\ cin.msgSel # ""
    /\ cin.authorSel # ""
    /\ cin.nonPostSel = ""
    /\ ~cin.stale

\* C12 (as stated): such a container is classified as a post, with no modern
\* class and no engagement element required.
C12_ArticleIsAPost ==
    ArticleWithMessageAndAuthor => cout = Some(TRUE)

\* C12 (amended): such a container is classified as a post exactly when it
\* also has a modern post class or an engagement element.
C12_ArticleNeedsClassOrEngagement ==
    ArticleWithMessageAndAuthor =>
       cout = Some(cin.class_attr = Some(s_modern_class) \/ cin.engagementSel # "")

\* an article with message and author, but neither a modern class nor an
\* engagement element, was rejected
C12_Witness ==
    /\ ArticleWithMessageAndAuthor
    /\ cin.msgShown
    /\ cin.class_attr = Some(s_plain_class)
    /\ cin.engagementSel = ""
    /\ cout = Some(FALSE)

C22_HiddenMessageIsNotAPost ==
    (cout # None /\ cin.msgSel # "" /\ ~cin.msgShown) => cout = Some(FALSE)

(***************************************************************************)
(* The body of the for loop as a function of one container.  An input      *)
(* describes the container (attributes, message element and its text,      *)
(* author link, comment indicator, engagement element, number of "See      *)
(* more" buttons), the browser call that fails, and how human_click goes.  *)
(***************************************************************************)
s_like == <<"L", "i", "k", "e">>

MessageSelectors(msgKind) ==
    CASE msgKind = "post_message" ->
            {"[data-testid='post_message']", "div[data-testid='post_message']"}
      [] msgKind = "message" ->
            {"[data-testid='message']", "div[data-testid='message']"}
      [] OTHER -> {}

\* the text of the message once "See more" has been clicked
Expanded(text) == IF text = s_hello THEN s_hello_more ELSE text

ContainerOf(d) ==
    LET one(sel, want, el) == IF sel = want THEN <<el>> ELSE <<>>
        shows(text, buttons) ==
            [s \in AllSelectors |->
                (IF s \in MessageSelectors(d.msgKind)
                 THEN <<El(d.msgShown, text)>> ELSE <<>>)
                \o one(s, d.authorSel, El(TRUE, s_feed))
                \o one(s, d.nonPostSel, El(FALSE, s_comment))
                \o one(s, d.engagementSel, El(TRUE, s_blank))
                \o (IF s = expand_button_selectors[1]
                    THEN [k \in 1..buttons |-> El(TRUE, s_post)] ELSE <<>>)]
    IN  [role |-> d.role, data_testid |-> None,
         class_attr |-> Some(s_plain_class), stale |-> FALSE,
         q |-> shows(d.msgText, d.buttons),
         q_expanded |-> shows(Expanded(d.msgText), 0)]

ContainerInputs ==
    [role : {None, Some(s_article)},
     msgKind : {"", "post_message", "message"},
     msgShown : BOOLEAN,
     msgText : {s_hello, s_like, s_blank},
     authorSel : {"", "h3 a"},
     nonPostSel : {"", "[data-testid='comment']"},
     engagementSel : {"", "[aria-label*='share']"},
     buttons : 0..2,
     fault : Faults,
     preRaises : BOOLEAN,
     clickRaises : BOOLEAN,
     fallbackRaises : BOOLEAN]

\* the inputs that describe a run of the body: one description per container
\* and per course of human_click, and a failing call that the run makes
IsContainerRun(d, validate) ==
    /\ d.msgKind = "" => (d.msgShown /\ d.msgText = s_hello)
    /\ d.preRaises => ~d.clickRaises
    /\ d.fallbackRaises => (d.preRaises \/ d.clickRaises)
    /\ (d.fault = "click") = human_click(TRUE, d.preRaises, d.clickRaises, d.fallbackRaises).raised
    /\ (d.preRaises \/ d.clickRaises) => d.buttons > 0
    /\ FaultApplies(ContainerOf(d), d.fault, TRUE, validate)

InitContainer ==
    /\ validate_posts \in BOOLEAN
    /\ cin \in {d \in ContainerInputs : IsContainerRun(d, validate_posts)}
    /\ cout = None
    /\ pc = "container"
    /\ driver = TRUE
    /\ is_authenticated = TRUE
    /\ max_posts = 1
    /\ posts = <<>>
    /\ scroll_attempts = 0
    /\ post_containers = <<1>>
    /\ idx = 1
    /\ result = <<>>
    /\ raised = FALSE
    /\ ev = "query_ok"
    /\ detailed_json_path = <<>>
    /\ db = <<>>
    /\ page = "blank"
    /\ NoOtherActivity

\* one pass of the for body (lines 264-361) on the container cin describes
ProcessOne ==
    /\ pc = "container"
    /\ cout = None
    /\ LET c == ContainerOf(cin)
           r == ProcessContainer(c, 1, cin.fault, 1, Len(posts), driver, validate_posts)
           hc == human_click(driver, cin.preRaises, cin.clickRaises, cin.fallbackRaises)
           clicks == \E k \in 1..Len(r.steps) : r.steps[k] = "expand"
       IN  cout' = Some([result |-> r,
                         click_calls |-> IF clicks /\ HasClickable(c, expand_button_selectors[1])
                                         THEN hc.calls ELSE 0])
    /\ UNCHANGED <<cin, loopVars, db, page, otherVars>>

NextContainer == ProcessOne

SpecContainer == InitContainer /\ [][NextContainer]_vars

(***************************************************************************)
(* Properties of the for body, stated for SpecContainer.                   *)
(***************************************************************************)
\* how many of the calls the body made are `step`
CountStep(steps, step) == Cardinality({k \in 1..Len(steps) : steps[k] = step})

\* C13: with validate_posts false _is_actual_post is never called, and every
\* container that got past the load wait and whose capture succeeds is
\* appended as a post, whatever the classifier would say about it.
C13_ValidationOffBypassesClassifier ==
    (cout # None /\ ~validate_posts) =>
       LET r == cout[1].result
       IN  /\ CountStep(r.steps, "classify") = 0
           /\ (CountStep(r.steps, "extract") = 1 /\ cin.fault # "capture") =>
                 /\ r.outcome = "captured"
                 /\ r.record # None
                 /\ r.record[1].is_valid_post
           /\ r.outcome # "rejected"

\* a container without role, that the classifier rejects, was appended
C13_Witness ==
    /\ cout # None
    /\ ~validate_posts
    /\ cin.role = None
    /\ cin.fault = "none"
    /\ ~_is_actual_post(ContainerOf(cin))
    /\ cout[1].result.outcome = "captured"
    /\ cout[1].result.record # None

\* C14 (as stated): the classifier runs before the expand click and the
\* extraction, and a container it rejects is never clicked or extracted.
C14_ClassifierBeforeExtractor ==
    cout # None =>
       LET r == cout[1].result
       IN  /\ \A j, k \in 1..Len(r.steps) :
                 (r.steps[j] = "classify" /\ r.steps[k] \in {"expand", "click", "extract"})
                 => j < k
           /\ r.outcome = "rejected" =>
                 \A k \in 1..Len(r.steps) : r.steps[k] \notin {"expand", "click", "extract"}

\* C15 (as stated): the post text that extract_content_data returned for a
\* captured container is absent or at least 10 characters long.
C15_ExtractedTextIsLongEnough ==
    (cout # None /\ cout[1].result.record # None) =>
       LET content_data == cout[1].result.record[1].content_data
       IN  (content_data # None /\ content_data[1].post_text # None)
           => Len(content_data[1].post_text[1]) >= 10

\* C24: under validation, an article with a message and an author and no
\* non-post indicator, whose class has no modern token and that shows no
\* engagement element, is rejected: no screenshot is taken of it and no
\* record is made.
C24_WeakSignalIsRejected ==
    (/\ cout # None
     /\ validate_posts
     /\ cin.role = Some(s_article)
     /\ cin.msgKind # ""
     /\ cin.authorSel # ""
     /\ cin.nonPostSel = ""
     /\ cin.engagementSel = "") =>
       LET r == cout[1].result
       IN  /\ r.record = None
           /\ CountStep(r.steps, "capture") = 0
           /\ r.outcome # "captured"
           /\ cin.fault = "none" =>
                 (r.outcome = "rejected" /\ CountStep(r.steps, "classify") = 1)

C24_Witness ==
    /\ cout # None
    /\ validate_posts
    /\ cin.role = Some(s_article)
    /\ cin.msgKind = "post_message"
    /\ cin.msgShown
    /\ cin.authorSel = "h3 a"
    /\ cin.nonPostSel = ""
    /\ cin.engagementSel = ""
    /\ cin.fault = "none"
    /\ ~has_modern_post_class(ContainerOf(cin))
    /\ cout[1].result.outcome = "rejected"
    /\ cout[1].result.record = None

\* C16: one pass over a container completes at most one click on a "See
\* more" button, on at most two element.click() calls (the second being the
\* fallback of human_click), and every click comes before the text is read.
C16_AtMostOneExpandClick ==
    cout # None =>
       LET r == cout[1].result
       IN  /\ CountStep(r.steps, "click") <= 1
           /\ cout[1].click_calls <= 2
           /\ CountStep(r.steps, "click") = 1 => cout[1].click_calls \in {1, 2}
           /\ \A j, k \in 1..Len(r.steps) :
                 (r.steps[j] = "click" /\ r.steps[k] = "extract") => j < k

\* a container with two "See more" buttons: one click, then the expanded
\* text was extracted
C16_Witness ==
    /\ cout # None
    /\ cin.buttons = 2
    /\ CountStep(cout[1].result.steps, "click") = 1
    /\ cout[1].result.record # None
    /\ cout[1].result.record[1].content_data # None
    /\ cout[1].result.record[1].content_data[1].post_text = Some(s_hello_more)

(***************************************************************************)
(* Capture failures and accumulation, stated for the loop.                 *)
(***************************************************************************)
\* scrape_posts runs to its return: a call that can take a step takes one
FairSpec == Spec /\ WF_vars(Next)

\* the container just handled is container e of the feed: its capture failed
\* in the cycle after s scrolls / a capture was attempted for it
CaptureFailedOn(e, s) ==
    /\ pc = "for"
    /\ ev = "capture_failed"
    /\ scroll_attempts = s
    /\ idx > 1
    /\ post_containers[idx - 1] = e

CaptureAttemptedOn(e) ==
    /\ ev \in {"capture_failed", "captured"}
    /\ idx > 1
    /\ idx - 1 <= Len(post_containers)
    /\ post_containers[idx - 1] = e

\* C17 (as stated), for the containers of the first cycle: once the capture
\* of a container has failed, no capture is attempted for that container in a
\* later cycle of the call.
C17_FailedCaptureIsNotRetried ==
    \A e \in Elems :
       [](CaptureFailedOn(e, 0) => [](CaptureAttemptedOn(e) => scroll_attempts = 0))

\* the classifier accepts container e of the feed, before or after the click
AcceptedByClassifier(e) ==
    \/ _is_actual_post(Fixture(e))
    \/ _is_actual_post(AfterClick(Fixture(e), 1))

PostIds == {None, Some("p1"), Some("p2")}

Records == [post_id : PostIds, fields : {"x", "y"}]

Batches == UNION {[1..n -> Records] : n \in 0..MaxBatch}

\* the tuple of values bound to the INSERT statement
RowOf(post) == [post_id |-> post.post_id, fields |-> post.fields]

\* a statement that overwrites the row of a repeated post_id
InsertOrReplace(rows, row) ==
    IF row.post_id # None /\ \E k \in 1..Len(rows) : rows[k].post_id = row.post_id
    THEN [k \in 1..Len(rows) |-> IF rows[k].post_id = row.post_id THEN row ELSE rows[k]]
    ELSE Append(rows, row)

\* INSERT OR IGNORE INTO posts ...: the UNIQUE constraint on post_id drops a
\* repeated post_id; NULL never conflicts
InsertOrIgnore(rows, row) ==
    IF row.post_id # None /\ \E k \in 1..Len(rows) : rows[k].post_id = row.post_id
    THEN rows
    ELSE Append(rows, row)

\* for post in posts: try: execute; saved_count += 1  except: continue
\* (failing: the position whose cursor.execute raises, 0 for none)
RECURSIVE InsertAll(_, _, _, _)
InsertAll(rows, ps, failing, k) ==
    IF k > Len(ps) THEN [rows |-> rows, saved_count |-> 0]
    ELSE IF k = failing THEN InsertAll(rows, ps, failing, k + 1)
    ELSE LET r == InsertAll(InsertOrIgnore(rows, RowOf(ps[k])), ps, failing, k + 1)
         IN  [rows |-> r.rows, saved_count |-> r.saved_count + 1]

\* the table after the call and the value returned; call: "ok", or
\* sqlite3.connect raises, or conn.commit raises (nothing is committed)
save_posts(rows, ps, failing, call) ==
    IF ps = <<>> THEN [rows |-> rows, saved_count |-> 0]
    ELSE IF call \in {"connect_raises", "commit_raises"}
    THEN [rows |-> rows, saved_count |-> 0]
    ELSE InsertAll(rows, ps, failing, 1)

\* SELECT COUNT(*) FROM posts
get_post_count(rows) == Len(rows)

StoreInputs ==
    {a \in [posts : Batches, failing : 0..MaxBatch,
            call : {"ok", "connect_raises", "commit_raises"}] :
        /\ a.failing <= Len(a.posts)
        /\ a.call # "ok" => a.failing = 0}

\* DatabaseManager(): the table exists and, for a new file, is empty
InitStore ==
    /\ db = <<>>
    /\ page = "blank"
    /\ NoOtherActivity
    /\ cin = NoInput
    /\ cout = None
    /\ pc = "store_idle"
    /\ driver = FALSE
    /\ is_authenticated = FALSE
    /\ validate_posts = TRUE
    /\ max_posts = 0
    /\ posts = <<>>
    /\ scroll_attempts = 0
    /\ post_containers = <<>>
    /\ idx = 1
    /\ result = <<>>
    /\ raised = FALSE
    /\ ev = "init"
    /\ detailed_json_path = <<>>

callVars == <<driver, is_authenticated, validate_posts, max_posts, posts,
              scroll_attempts, post_containers, idx, result, raised, ev,
              detailed_json_path, page, otherVars>>

\* a caller hands a list to save_posts
StoreCall ==
    /\ pc = "store_idle"
    /\ \E a \in StoreInputs :
          /\ Len(db) + Len(a.posts) <= MaxRows
          /\ cin' = a
    /\ cout' = None
    /\ pc' = "store_call"
    /\ UNCHANGED <<db, callVars>>

\* save_posts runs to its return
SavePosts ==
    /\ pc = "store_call"
    /\ LET r == save_posts(db, cin.posts, cin.failing, cin.call)
       IN  /\ db' = r.rows
           /\ cout' = Some(r.saved_count)
    /\ pc' = "store_idle"
    /\ UNCHANGED <<cin, callVars>>

NextStore == StoreCall \/ SavePosts

SpecStore == InitStore /\ [][NextStore]_vars

\* the step in which save_posts returns
SavePostsReturns == pc = "store_call" /\ pc' = "store_idle"

\* C19: the table never holds two rows with the same post_id, save_posts
\* never changes or removes a row, and a row it adds carries the values of
\* the first record of the list that was saved with that post_id: a record
\* with a repeated post_id is dropped.
C19_FirstRecordPerPostIdIsKept ==
    /\ [](\A i, j \in 1..Len(db) :
             (i # j /\ db[i].post_id # None) => db[i].post_id # db[j].post_id)
    /\ [][IsPrefix(db, db')]_vars
    /\ [][SavePostsReturns =>
             \A k \in (Len(db) + 1)..Len(db') :
                db'[k].post_id # None =>
                   LET saved == {i \in 1..Len(cin.posts) :
                                   /\ i # cin.failing
                                   /\ cin.posts[i].post_id = db'[k].post_id}
                   IN  /\ saved # {}
                       /\ \A i \in saved :
                             (\A j \in saved : i <= j) =>
                                db'[k].fields = cin.posts[i].fields]_vars

\* a record whose post_id is in the table with other values was handed to
\* save_posts and the row kept its values
C19_Witness ==
    /\ pc = "store_idle"
    /\ cout # None
    /\ cin.call = "ok"
    /\ \E k \in 1..Len(cin.posts) : \E i \in 1..Len(db) :
          /\ k # cin.failing
          /\ cin.posts[k].post_id # None
          /\ db[i].post_id = cin.posts[k].post_id
          /\ db[i].fields # cin.posts[k].fields

\* C20 (as stated): the value save_posts returns is the growth of the row
\* count of the table.
C20_ReturnsInsertedCount ==
    [][SavePostsReturns =>
          cout' = Some(get_post_count(db') - get_post_count(db))]_vars

(***************************************************************************)
(* Further properties of scrape_posts, stated for Spec.                    *)
(***************************************************************************)
\* the number a string of decimal digits denotes; -1 for anything else
RECURSIVE DecimalValue(_)
DecimalValue(s) ==
    IF s = <<>> THEN -1
    ELSE LET d == s[Len(s)]
             rest == SubSeq(s, 1, Len(s) - 1)
             v == IF \E i \in 1..10 : DigitChars[i] = d
                  THEN (CHOOSE i \in 1..10 : DigitChars[i] = d) - 1 ELSE -1
         IN  IF v = -1 THEN -1
             ELSE IF rest = <<>> THEN v
             ELSE LET r == DecimalValue(rest)
                  IN  IF r = -1 THEN -1 ELSE 10 * r + v

IdsOf(ps) ==
    \A k \in 1..Len(ps) :
        /\ ps[k].post_id # <<>>
        /\ Len(ps[k].post_id) > Len(s_post_prefix)
        /\ SubSeq(ps[k].post_id, 1, Len(s_post_prefix)) = s_post_prefix
        /\ DecimalValue(SubSeq(ps[k].post_id, Len(s_post_prefix) + 1,
                               Len(ps[k].post_id))) = k
        /\ \A j \in 1..Len(ps) : ps[j].post_id = ps[k].post_id => j = k

\* C23: every record accumulated and every record returned carries a
\* non-empty post_id, "post_" followed by the decimal of the record's
\* position, and no two records of the list share one.
C23_PostIdsAreNonEmptyAndUnique ==
    /\ IdsOf(posts)
    /\ pc = "done" => IdsOf(result)

C23_Witness ==
    /\ pc = "done"
    /\ Len(result) >= 2
    /\ result[1].post_id # result[2].post_id
    /\ result[2].post_id = s_post_prefix \o <<"0", "0", "2">>

\* C25: the loop (query, container, scroll, capture) runs only with a driver
\* and on the target page, entered either by an authenticated scraper after
\* the first navigation or after the call's own logged-in check succeeded
\* and the target was loaded again; with no driver, or when the check fails,
\* the call returns [] with nothing processed.
C25_LoginGate ==
    /\ [](pc \in {"while", "for", "save"} => (driver /\ page = "target"))
    /\ [][(pc \in {"start", "auth"} /\ pc' = "while") =>
             /\ driver
             /\ \/ pc = "start" /\ is_authenticated
                \/ pc = "auth" /\ ~is_authenticated /\ ev' = "login_ok"]_vars
    /\ [][(\/ posts' # posts
           \/ scroll_attempts' # scroll_attempts
           \/ ev' \in Outcomes \cup {"query_ok", "scroll_ok", "scroll_throws"})
             => pc \in {"while", "for"}]_vars
    /\ [][(pc = "start" /\ ~driver) => ev' = "no_driver"]_vars
    /\ [](ev \in {"no_driver", "login_fail"} =>
             /\ pc = "done"
             /\ result = <<>>
             /\ posts = <<>>
             /\ scroll_attempts = 0
             /\ ~raised)

\* an unauthenticated scraper captured a post after its logged-in check
C25_Witness ==
    /\ pc = "for"
    /\ ~is_authenticated
    /\ page = "target"
    /\ ev = "captured"
    /\ posts # <<>>

\* C29 (as stated): for every non-empty list scrape_posts has accumulated,
\* records with content_data None included, the export writes the file and
\* returns its path as long as the write itself succeeds.
C29_ExportWritesEveryAccumulatedList ==
    (pc = "save" /\ posts # <<>>) =>
        save_content_data_to_detailed_json(posts, FALSE) # <<>>

(***************************************************************************)
(* Closing a scraper.  BaseScraper.close quits the driver when one is set  *)
(* and leaves self.driver as it is; FacebookUIScraper inherits it.         *)
(* GoogleScraper.close quits, clears self.driver and calls the base close. *)
(* A call is logged as [op, ret]; driver.quit() is logged as a call too.   *)
(***************************************************************************)
Call(op, ret) == [op |-> op, ret |-> ret]

\* BaseScraper.close: if self.driver: self.driver.quit()
BaseScraper_close(drv, quitRaises) ==
    [calls  |-> IF drv
                THEN << Call("quit", IF quitRaises THEN "raised" ELSE "None") >>
                ELSE << >>,
     driver |-> drv,
     raised |-> drv /\ quitRaises]

\* GoogleScraper.close: quit, self.driver = None, super().close()
GoogleScraper_close(drv, quitRaises) ==
    IF drv /\ quitRaises
    THEN [calls |-> << Call("quit", "raised") >>, driver |-> drv, raised |-> TRUE]
    ELSE LET base == BaseScraper_close(FALSE, quitRaises)
         IN  [calls  |-> (IF drv THEN << Call("quit", "None") >> ELSE << >>)
                         \o base.calls,
              driver |-> FALSE,
              raised |-> base.raised]

\* scraper.close() through the class of the instance
close(kind, drv, quitRaises) ==
    LET r == IF kind = "GoogleScraper" THEN GoogleScraper_close(drv, quitRaises)
             ELSE BaseScraper_close(drv, quitRaises)
    IN  [calls  |-> << Call("close", IF r.raised THEN "raised" ELSE "None") >>
                    \o r.calls,
         driver |-> r.driver,
         raised |-> r.raised]

\* BaseScraper.__exit__: self.close()
__exit__(kind, drv, quitRaises) ==
    LET r == close(kind, drv, quitRaises)
    IN  [calls  |-> << Call("__exit__", IF r.raised THEN "raised" ELSE "None") >>
                    \o r.calls,
         driver |-> r.driver,
         raised |-> r.raised]

\* how many calls of an operation the log holds
CountOp(log, op) == Cardinality({k \in 1..Len(log) : log[k].op = op})

(***************************************************************************)
(* main() from the creation of the scraper to its end.  scrape_posts is    *)
(* taken as one call that returns a list (its course is Spec); a call can  *)
(* be cut short by KeyboardInterrupt, which none of the scraper's own      *)
(* `except Exception` handlers catches.                                    *)
(***************************************************************************)
mainFrame == <<validate_posts, max_posts, posts, scroll_attempts,
               post_containers, idx, raised, detailed_json_path, cin, cout,
               db, SELENIUM_CHROME_INDICATORS, procs, signals>>

\* scraper = FacebookUIScraper(db_path=..., validate_posts=args.validate_posts)
InitMain ==
    /\ pc = "main_setup"
    /\ driver = FALSE
    /\ is_authenticated = FALSE
    /\ validate_posts \in BOOLEAN
    /\ max_posts \in 0..MaxPosts
    /\ cin \in [credentials : BOOLEAN]
    /\ cout = None
    /\ posts = <<>>
    /\ scroll_attempts = 0
    /\ post_containers = <<>>
    /\ idx = 1
    /\ result = <<>>
    /\ raised = FALSE
    /\ ev = "init"
    /\ detailed_json_path = <<>>
    /\ db = <<>>
    /\ page = "blank"
    /\ NoOtherActivity

\* FacebookUIScraper.setup_driver: self.driver is assigned before the last
\* two steps, so a False return or an interrupt can leave a driver behind
SetupDriver ==
    /\ pc = "main_setup"
    /\ \E ret \in {"True", "False", "KeyboardInterrupt"}, drv \in BOOLEAN :
          /\ ret = "True" => drv
          /\ driver' = drv
          /\ calls' = Append(calls, Call("setup_driver", ret))
          /\ pc' = IF ret = "True" THEN "main_auth" ELSE "main_finally"
          /\ ev' = CASE ret = "True"  -> "setup_ok"
                      [] ret = "False" -> "setup_failed"
                      [] OTHER         -> "keyboard_interrupt"
    /\ UNCHANGED <<is_authenticated, result, page, mainFrame>>

\* if email and password: scraper.authenticate(credentials)
Authenticate ==
    /\ pc = "main_auth"
    /\ cin.credentials
    /\ \E ret \in {"True", "False", "KeyboardInterrupt"}, pg \in {"home", "login"} :
          /\ ret = "True" => pg = "home"
          /\ page' = pg
          /\ is_authenticated' = (ret = "True")
          /\ calls' = Append(calls, Call("authenticate", ret))
          /\ pc' = IF ret = "KeyboardInterrupt" THEN "main_finally" ELSE "main_scrape"
          /\ ev' = CASE ret = "True"  -> "auth_ok"
                      [] ret = "False" -> "auth_failed"
                      [] OTHER         -> "keyboard_interrupt"
    /\ UNCHANGED <<driver, result, mainFrame>>

\* else: running in public mode
NoCredentials ==
    /\ pc = "main_auth"
    /\ ~cin.credentials
    /\ pc' = "main_scrape"
    /\ ev' = "public_mode"
    /\ UNCHANGED <<driver, is_authenticated, result, page, calls, mainFrame>>

\* the lists scrape_posts can return for max_posts
ScrapeReturns(limit) ==
    {[k \in 1..n |-> PostData(Fixture(1), 1, k - 1, s_png, None)] : n \in 0..limit}

\* posts = scraper.scrape_posts(target_url, max_posts=args.max_posts)
ScrapePosts ==
    /\ pc = "main_scrape"
    /\ \/ \E r \in ScrapeReturns(max_posts) :
             /\ result' = r
             /\ calls' = Append(calls, Call("scrape_posts", "list"))
             /\ pc' = "main_report"
             /\ ev' = "scraped"
       \/ /\ calls' = Append(calls, Call("scrape_posts", "KeyboardInterrupt"))
          /\ pc' = "main_finally"
          /\ ev' = "keyboard_interrupt"
          /\ UNCHANGED result
    /\ page' = "target"
    /\ UNCHANGED <<driver, is_authenticated, mainFrame>>

\* if posts: the summary (os.path.getsize can raise) else: the explanation
Report ==
    /\ pc = "main_report"
    /\ pc' = "main_finally"
    /\ \/ ev' = IF result # <<>> THEN "reported" ELSE "no_posts"
       \/ result # <<>> /\ ev' = "exception"
    /\ UNCHANGED <<driver, is_authenticated, result, page, calls, mainFrame>>

\* Ctrl-C between two calls on the scraper
KeyboardInterrupt ==
    /\ pc \in {"main_auth", "main_scrape", "main_report"}
    /\ pc' = "main_finally"
    /\ ev' = "keyboard_interrupt"
    /\ UNCHANGED <<driver, is_authenticated, result, page, calls, mainFrame>>

\* a finally block that only prints
Finally_WithoutClose ==
    /\ pc = "main_finally"
    /\ pc' = "main_exit"
    /\ UNCHANGED <<driver, is_authenticated, result, page, calls, ev, mainFrame>>

\* finally: scraper.close()
Finally ==
    /\ pc = "main_finally"
    /\ \E quitRaises \in BOOLEAN :
          LET r == close("FacebookUIScraper", driver, quitRaises)
          IN  /\ calls' = calls \o r.calls
              /\ driver' = r.driver
    /\ pc' = "main_exit"
    /\ UNCHANGED <<is_authenticated, result, page, ev, mainFrame>>

NextMain ==
    \/ SetupDriver
    \/ Authenticate
    \/ NoCredentials
    \/ ScrapePosts
    \/ Report
    \/ KeyboardInterrupt
    \/ Finally

SpecMain == InitMain /\ [][NextMain]_vars

\* main runs on: each of its steps is eventually taken
FairMain == SpecMain /\ WF_vars(NextMain)

\* C27: main reaches its end on every path, and at its end close() has been
\* called exactly once (never twice on the way); scrape_posts is called only
\* after a setup_driver call that returned True; an authenticate call that
\* returned False is followed by the scrape_posts call unless the user
\* interrupts.
C27_MainClosesExactlyOnce ==
    /\ <>(pc = "main_exit")
    /\ [](CountOp(calls, "close") <= 1)
    /\ [](pc = "main_exit" => CountOp(calls, "close") = 1)
    /\ [](\A k \in 1..Len(calls) :
             calls[k].op = "scrape_posts" =>
                \E j \in 1..(k - 1) : calls[j] = Call("setup_driver", "True"))
    /\ [][calls' = Append(calls, Call("authenticate", "False")) =>
             pc' = "main_scrape"]_vars
    /\ [][(pc = "main_scrape" /\ pc' # pc) =>
             \/ calls'[Len(calls')].op = "scrape_posts" /\ Len(calls') = Len(calls) + 1
             \/ ev' = "keyboard_interrupt"]_vars

\* main ended after a failed authentication and an empty scrape
C27_Witness ==
    /\ pc = "main_exit"
    /\ ev = "no_posts"
    /\ \E k \in 1..Len(calls) : calls[k] = Call("authenticate", "False")
    /\ CountOp(calls, "scrape_posts") = 1
    /\ CountOp(calls, "close") = 1
    /\ CountOp(calls, "quit") = 1

(***************************************************************************)
(* One scraper instance, closed any number of times, directly or by        *)
(* leaving a `with` block.                                                 *)
(***************************************************************************)
MaxCalls == 3

InitClose ==
    /\ pc = "close_idle"
    /\ cin \in [kind : {"FacebookUIScraper", "GoogleScraper"}]
    /\ driver \in BOOLEAN
    /\ is_authenticated = FALSE
    /\ validate_posts = TRUE
    /\ max_posts = 0
    /\ cout = None
    /\ posts = <<>>
    /\ scroll_attempts = 0
    /\ post_containers = <<>>
    /\ idx = 1
    /\ result = <<>>
    /\ raised = FALSE
    /\ ev = "init"
    /\ detailed_json_path = <<>>
    /\ db = <<>>
    /\ page = "blank"
    /\ NoOtherActivity

\* scraper.close()
CallClose ==
    /\ pc = "close_idle"
    /\ CountOp(calls, "close") < MaxCalls
    /\ \E quitRaises \in BOOLEAN :
          LET r == close(cin.kind, driver, quitRaises)
          IN  /\ quitRaises => driver
              /\ calls' = calls \o r.calls
              /\ driver' = r.driver
              /\ raised' = r.raised
    /\ ev' = "close"
    /\ UNCHANGED <<pc, is_authenticated, validate_posts, max_posts, posts,
                   scroll_attempts, post_containers, idx, result,
                   detailed_json_path, cin, cout, db, page,
                   SELENIUM_CHROME_INDICATORS, procs, signals>>

\* the end of `with scraper:`
ContextExit ==
    /\ pc = "close_idle"
    /\ CountOp(calls, "close") < MaxCalls
    /\ \E quitRaises \in BOOLEAN :
          LET r == __exit__(cin.kind, driver, quitRaises)
          IN  /\ quitRaises => driver
              /\ calls' = calls \o r.calls
              /\ driver' = r.driver
              /\ raised' = r.raised
    /\ ev' = "exit"
    /\ UNCHANGED <<pc, is_authenticated, validate_posts, max_posts, posts,
                   scroll_attempts, post_containers, idx, result,
                   detailed_json_path, cin, cout, db, page,
                   SELENIUM_CHROME_INDICATORS, procs, signals>>

NextClose == CallClose \/ ContextExit

SpecClose == InitClose /\ [][NextClose]_vars

\* C28 (as stated): however often a scraper is closed, its driver is asked
\* to quit at most once; stated here for drivers whose quit() succeeds.
C28_QuitAtMostOnce ==
    (\A k \in 1..Len(calls) : calls[k].ret # "raised") =>
        CountOp(calls, "quit") <= 1

(***************************************************************************)
(* ChromeProcessManager: the indicator list and the classification of a    *)
(* command line.  A command line is None (<<>>) or <<list of arguments>>.  *)
(***************************************************************************)
MaxEdits == 2

\* Python's `t in s` for strings
StrContains(s, t) ==
    \E i \in 1..(Len(s) - Len(t) + 1) : SubSeq(s, i, i + Len(t) - 1) = t

\* " ".join(cmdline)
RECURSIVE Join(_)
Join(args) ==
    IF args = <<>> THEN ""
    ELSE IF Len(args) = 1 THEN args[1]
    ELSE args[1] \o " " \o Join(Tail(args))

\* if not cmdline: False; any(indicator in " ".join(cmdline) ...) or
\* any("--remote-debugging-port" in arg for arg in cmdline)
_is_selenium_chrome_process(cmdline, indicators) ==
    IF cmdline = None \/ cmdline[1] = <<>> THEN FALSE
    ELSE LET is_selenium_chrome ==
                 \E i \in 1..Len(indicators) :
                     StrContains(Join(cmdline[1]), indicators[i])
             has_remote_debug ==
                 \E j \in 1..Len(cmdline[1]) :
                     StrContains(cmdline[1][j], "--remote-debugging-port")
         IN  is_selenium_chrome \/ has_remote_debug

\* cls.SELENIUM_CHROME_INDICATORS.append(indicator) unless it is there
add_selenium_indicator(indicators, indicator) ==
    IF \E i \in 1..Len(indicators) : indicators[i] = indicator
    THEN [list |-> indicators, ret |-> "False"]
    ELSE [list |-> Append(indicators, indicator), ret |-> "True"]

\* cls.SELENIUM_CHROME_INDICATORS.remove(indicator): the first occurrence
remove_selenium_indicator(indicators, indicator) ==
    IF \E i \in 1..Len(indicators) : indicators[i] = indicator
    THEN LET i == CHOOSE i \in 1..Len(indicators) :
                     /\ indicators[i] = indicator
                     /\ \A j \in 1..(i - 1) : indicators[j] # indicator
         IN  [list |-> SubSeq(indicators, 1, i - 1)
                       \o SubSeq(indicators, i + 1, Len(indicators)),
              ret |-> "True"]
    ELSE [list |-> indicators, ret |-> "False"]

IndicatorInputs == {"--remote-debugging-port", "--user-data-dir", "--headless"}

Cmdlines ==
    { None,
      <<<<>>>>,
      <<<<"chrome", "--type=renderer">>>>,
      <<<<"chrome", "--headless">>>>,
      <<<<"chrome", "--user-data-dir=/tmp/p">>>>,
      <<<<"chrome", "--remote-debugging-port=9222">>>>,
      <<<<"chrome", "--remote-debugging-port=9222", "--no-first-run">>>> }

InitIndicators ==
    /\ pc = "indicators"
    /\ SELENIUM_CHROME_INDICATORS = DefaultIndicators
    /\ calls = <<>>
    /\ procs = <<>>
    /\ signals = <<>>
    /\ cin = NoInput
    /\ cout = None
    /\ driver = FALSE
    /\ is_authenticated = FALSE
    /\ validate_posts = TRUE
    /\ max_posts = 0
    /\ posts = <<>>
    /\ scroll_attempts = 0
    /\ post_containers = <<>>
    /\ idx = 1
    /\ result = <<>>
    /\ raised = FALSE
    /\ ev = "init"
    /\ detailed_json_path = <<>>
    /\ db = <<>>
    /\ page = "blank"

indicatorFrame == <<pc, driver, is_authenticated, validate_posts, max_posts,
                    posts, scroll_attempts, post_containers, idx, result,
                    raised, ev, detailed_json_path, db, page, procs, signals>>

\* ChromeProcessManager.add_selenium_indicator(x); cin keeps the argument
AddIndicator ==
    /\ pc = "indicators"
    /\ Len(calls) < MaxEdits
    /\ \E x \in IndicatorInputs :
          LET r == add_selenium_indicator(SELENIUM_CHROME_INDICATORS, x)
          IN  /\ SELENIUM_CHROME_INDICATORS' = r.list
              /\ calls' = Append(calls, Call("add_selenium_indicator", r.ret))
              /\ cin' = x
    /\ cout' = None
    /\ UNCHANGED indicatorFrame

\* ChromeProcessManager.remove_selenium_indicator(x)
RemoveIndicator ==
    /\ pc = "indicators"
    /\ Len(calls) < MaxEdits
    /\ \E x \in IndicatorInputs :
          LET r == remove_selenium_indicator(SELENIUM_CHROME_INDICATORS, x)
          IN  /\ SELENIUM_CHROME_INDICATORS' = r.list
              /\ calls' = Append(calls, Call("remove_selenium_indicator", r.ret))
              /\ cin' = x
    /\ cout' = None
    /\ UNCHANGED indicatorFrame

\* self._is_selenium_chrome_process(cmdline) with the list as it is now
ClassifyProcess ==
    /\ pc = "indicators"
    /\ cout = None
    /\ \E cmdline \in Cmdlines :
          cout' = Some([cmdline |-> cmdline,
                        result  |-> _is_selenium_chrome_process(
                                        cmdline, SELENIUM_CHROME_INDICATORS)])
    /\ UNCHANGED <<cin, calls, SELENIUM_CHROME_INDICATORS, indicatorFrame>>

NextIndicators == AddIndicator \/ RemoveIndicator \/ ClassifyProcess

SpecIndicators == InitIndicators /\ [][NextIndicators]_vars

\* C30 (as stated): once remove_selenium_indicator(x) has returned True, a
\* command line that contains x and none of the indicators left in the list
\* is not classified as Selenium-related.
C30_RemovedIndicatorNoLongerMatches ==
    (/\ cout # None
     /\ calls # <<>>
     /\ calls[Len(calls)] = Call("remove_selenium_indicator", "True")
     /\ cout[1].cmdline # None
     /\ StrContains(Join(cout[1].cmdline[1]), cin)
     /\ \A i \in 1..Len(SELENIUM_CHROME_INDICATORS) :
           ~StrContains(Join(cout[1].cmdline[1]), SELENIUM_CHROME_INDICATORS[i]))
    => ~cout[1].result

(***************************************************************************)
(* terminate_selenium_chrome_sessions over a table of processes.  The scan *)
(* and the terminate calls are one step, the two-second sleep lets         *)
(* processes exit, the kill calls are the last step.  terminate() and      *)
(* kill() on a process of another user raise AccessDenied, on a process    *)
(* that is gone NoSuchProcess; both are swallowed and nothing is sent.     *)
(***************************************************************************)
NumProcs == 2

\* str.lower() on the letters process names are written in
RECURSIVE Lower(_)
Lower(s) ==
    IF Len(s) = 0 THEN ""
    ELSE LET c == SubSeq(s, 1, 1)
             upper == "ABCDEFGHIJKLMNOPQRSTUVWXYZ"
             lower == "abcdefghijklmnopqrstuvwxyz"
             lc == IF \E i \in 1..26 : SubSeq(upper, i, i) = c
                   THEN LET i == CHOOSE i \in 1..26 : SubSeq(upper, i, i) = c
                        IN  SubSeq(lower, i, i)
                   ELSE c
         IN  lc \o Lower(SubSeq(s, 2, Len(s)))

Proc(name, cmdline, denied) ==
    [name |-> name, cmdline |-> cmdline, running |-> TRUE, denied |-> denied]

ProcKinds ==
    { Proc(Some("chromedriver"), Some(<<"chromedriver", "--port=9515">>), FALSE),
      Proc(Some("ChromeDriver"), None, FALSE),
      Proc(Some("Google Chrome"),
           Some(<<"chrome", "--remote-debugging-port=9222", "--user-data-dir=/tmp/p">>),
           FALSE),
      Proc(Some("Google Chrome"), Some(<<"chrome", "--no-first-run">>), TRUE),
      Proc(Some("Google Chrome"), Some(<<"chrome", "--type=renderer">>), FALSE),
      Proc(Some("chrome"), None, FALSE),
      Proc(Some("chrome"), Some(<<>>), FALSE),
      Proc(Some("python3"), Some(<<"python3", "--user-data-dir=/x">>), FALSE),
      Proc(None, Some(<<"defunct">>), FALSE) }

\* a scan that takes every Chrome process for a Selenium one
IsTarget_AnyChrome(p, indicators) ==
    StrContains(Lower(p.name[1]), "chrome")

\* "chromedriver" in proc_name, or "chrome" in proc_name and
\* self._is_selenium_chrome_process(cmdline)
IsTarget(p, indicators) ==
    \/ StrContains(Lower(p.name[1]), "chromedriver")
    \/ /\ StrContains(Lower(p.name[1]), "chrome")
       /\ _is_selenium_chrome_process(p.cmdline, indicators)

\* chromedriver_processes + selenium_chrome_processes, as pids
Targets(table, indicators) ==
    LET pids == [i \in 1..Len(table) |-> i]
        IsDriver(i) == StrContains(Lower(table[i].name[1]), "chromedriver")
        IsDriverTarget(i) == IsDriver(i) /\ IsTarget(table[i], indicators)
        IsChromeTarget(i) == ~IsDriver(i) /\ IsTarget(table[i], indicators)
    IN  SelectSeq(pids, IsDriverTarget) \o SelectSeq(pids, IsChromeTarget)

\* the signals one pass over the targets delivers
Deliver(table, targets, sig) ==
    LET Reached(i) == table[i].running /\ ~table[i].denied
    IN  [k \in 1..Len(SelectSeq(targets, Reached)) |->
            [pid |-> SelectSeq(targets, Reached)[k], sig |-> sig]]

InitChrome ==
    /\ pc = "chrome_scan"
    /\ SELENIUM_CHROME_INDICATORS = DefaultIndicators
    /\ procs \in [1..NumProcs -> ProcKinds]
    /\ signals = <<>>
    /\ calls = <<>>
    /\ cin = NoInput
    /\ cout = None
    /\ driver = FALSE
    /\ is_authenticated = FALSE
    /\ validate_posts = TRUE
    /\ max_posts = 0
    /\ posts = <<>>
    /\ scroll_attempts = 0
    /\ post_containers = <<>>
    /\ idx = 1
    /\ result = <<>>
    /\ raised = FALSE
    /\ ev = "init"
    /\ detailed_json_path = <<>>
    /\ db = <<>>
    /\ page = "blank"

chromeFrame == <<driver, is_authenticated, validate_posts, max_posts, posts,
                 scroll_attempts, post_containers, idx, result, raised,
                 detailed_json_path, db, page, calls,
                 SELENIUM_CHROME_INDICATORS>>

\* the scan of psutil.process_iter and the two terminate loops; a process
\* without a name makes .lower() raise, and the handler returns False
TerminatePhase ==
    /\ pc = "chrome_scan"
    /\ IF \E i \in 1..Len(procs) : procs[i].name = None
       THEN /\ cout' = Some(FALSE)
            /\ pc' = "chrome_done"
            /\ ev' = "scan_raised"
            /\ UNCHANGED <<cin, signals>>
       ELSE LET targets == Targets(procs, SELENIUM_CHROME_INDICATORS)
            IN  /\ cin' = targets
                /\ signals' = signals \o Deliver(procs, targets, "terminate")
                /\ IF targets = <<>>
                   THEN cout' = Some(TRUE) /\ pc' = "chrome_done" /\ ev' = "none_found"
                   ELSE cout' = None /\ pc' = "chrome_sleep" /\ ev' = "terminated"
    /\ UNCHANGED <<procs, chromeFrame>>

\* during time.sleep(2) a process ends
ProcessExits ==
    /\ pc = "chrome_sleep"
    /\ \E i \in 1..Len(procs) :
          /\ procs[i].running
          /\ procs' = [procs EXCEPT ![i].running = FALSE]
    /\ ev' = "process_exit"
    /\ UNCHANGED <<pc, cin, cout, signals, chromeFrame>>

\* for proc in chromedriver_processes + selenium_chrome_processes:
\*     if proc.is_running(): proc.kill()
KillPhase ==
    /\ pc = "chrome_sleep"
    /\ signals' = signals \o Deliver(procs, cin, "kill")
    /\ procs' = [i \in 1..Len(procs) |->
                    IF \E k \in 1..Len(cin) : cin[k] = i /\ ~procs[i].denied
                    THEN [procs[i] EXCEPT !.running = FALSE]
                    ELSE procs[i]]
    /\ cout' = Some(TRUE)
    /\ pc' = "chrome_done"
    /\ ev' = "killed"
    /\ UNCHANGED <<cin, chromeFrame>>

NextChrome == TerminatePhase \/ ProcessExits \/ KillPhase

SpecChrome == InitChrome /\ [][NextChrome]_vars

Signalled(i) == \E k \in 1..Len(signals) : signals[k].pid = i

MatchesAnIndicator(cmdline) ==
    /\ cmdline # None
    /\ cmdline[1] # <<>>
    /\ \E i \in 1..Len(SELENIUM_CHROME_INDICATORS) :
          StrContains(Join(cmdline[1]), SELENIUM_CHROME_INDICATORS[i])

\* C26: every process that was sent terminate or kill has 'chromedriver' in
\* its lower-cased name, or 'chrome' in it and a command line that matches
\* an indicator; a Chrome process that is regular or has an empty command
\* line is never signalled; kill goes only to a target that is still
\* running when the sleep is over, and after all terminate calls.
C26_OnlyClassifiedProcessesAreSignalled ==
    /\ [](\A k \in 1..Len(signals) :
             LET p == procs[signals[k].pid]
             IN  /\ p.name # None
                 /\ \/ StrContains(Lower(p.name[1]), "chromedriver")
                    \/ /\ StrContains(Lower(p.name[1]), "chrome")
                       /\ MatchesAnIndicator(p.cmdline))
    /\ [](\A i \in 1..Len(procs) :
             (/\ procs[i].name # None
              /\ StrContains(Lower(procs[i].name[1]), "chrome")
              /\ ~StrContains(Lower(procs[i].name[1]), "chromedriver")
              /\ ~MatchesAnIndicator(procs[i].cmdline)) => ~Signalled(i))
    /\ [][\A k \in (Len(signals) + 1)..Len(signals') :
             signals'[k].sig = "kill" =>
                /\ pc = "chrome_sleep"
                /\ procs[signals'[k].pid].running
                /\ \E j \in 1..Len(cin) : cin[j] = signals'[k].pid]_vars
    /\ [](\A j, k \in 1..Len(signals) :
             (signals[j].sig = "kill" /\ signals[k].sig = "terminate") => k < j)

\* a Selenium Chrome was terminated and then killed next to a regular Chrome
\* that was left alone
C26_Witness ==
    /\ pc = "chrome_done"
    /\ \E i, j \in 1..Len(procs) :
          /\ procs[i].name = Some("Google Chrome")
          /\ MatchesAnIndicator(procs[i].cmdline)
          /\ \E k \in 1..Len(signals) : signals[k] = [pid |-> i, sig |-> "kill"]
          /\ procs[j].cmdline = Some(<<"chrome", "--type=renderer">>)
          /\ ~Signalled(j)

=============================================================================
